---------------------------- MODULE Spec2Model ----------------------------
(***************************************************************************)
(* oculo-control: the EOG gaze classifier (class classify of               *)
(* "main (copy).py", carried in src/graph.py from line 63 on) and the      *)
(* sliding plot buffers of src/EOG-in Python/lib/live_graph.py.            *)
(*                                                                         *)
(* Amplitudes are Python floats.  The model carries them as integers in    *)
(* TENTHS (101.6 is 1016, difference_tresh 0.5 is 5); every amplitude and  *)
(* threshold used is a multiple of 0.1 and the comparisons of tenths agree *)
(* with the float comparisons of the code on these values.                 *)
(*                                                                         *)
(* Labels are the strings the code stores in self.status.  The code        *)
(* spells the initial label "centre" and the label of the clear checks     *)
(* "center"; IsCenter accepts both as the label Center.                    *)
(***************************************************************************)
EXTENDS Integers, Sequences, FiniteSets, TLC

(***************************************************************************)
(* Bounds of the model.                                                    *)
(***************************************************************************)
\* greatest template_size passed to template_match
MaxTemplateSize == 3
\* template_match calls made on the instance
MaxCalls == 2
\* animate calls made on the plot module
MaxIter == 503
\* calls by which the first of two instances fed one sequence is ahead
MaxLead == 2

\* vertical amplitudes fed to the classifier (tenths): below, at and above
\* the vertical thresholds (100), with steps of 0.1, 0.5 and 0.6 above it
VerticalAmplitudes == {0, 500, 1000, 1010, 1015, 1016}
\* horizontal amplitudes (tenths): negative, below lower (2), at upper (3),
\* and above upper with steps of 0.4 and 0.6
HorizontalAmplitudes == {-10, 0, 30, 34, 40}
\* samples handed to template_match
TemplateSamples == {<<0, 0>>, <<1016, 40>>}
TemplateSizes == 1..MaxTemplateSize
\* the module-level name  value  that animate reads (tenths)
PlotValues == {-13, 0, 25}
\* samples fed to two instances side by side (tenths)
TwoVertical == {0, 500, 1010}
TwoHorizontal == {0, 40}

(***************************************************************************)
(* Python values that change type in the code: a list, None, an int.       *)
(***************************************************************************)
PyList(s) == [tag |-> "list", val |-> s]
PyNone == [tag |-> "None", val |-> <<>>]
PyInt(n) == [tag |-> "int", val |-> <<n>>]

\* the value of the expression  l.append(x)  for a list l: list.append
\* mutates the list in place and returns None
ListAppend(l, x) == PyNone

(***************************************************************************)
(* treshold(): configuration assigned at the top of every call.            *)
(***************************************************************************)
upper_thresh_vertical == 1000
lower_thresh_vertical == 1000
upper_thresh_horizontal == 30
lower_thresh_horizontal == 20
difference_tresh == 5

\* the templates __init__ assigns; nothing reassigns them
left_template == PyInt(0)
right_template == PyInt(0)
up_template == PyInt(0)
down_template == PyInt(0)
blink_template == PyInt(0)

IsCenter(s) == s \in {"centre", "center"}

VARIABLES
  vertical_prev_amplitude, horizontal_prev_amplitude,
  left_flag, right_flag, up_flag, down_flag,
  status, iterator,
  vertical_signal_stack, horizontal_signal_stack,
  vertical_amplitude, horizontal_amplitude,
  vertical_difference, horizontal_difference,
  corr,          \* left_corr, right_corr, up_corr, down_corr, blink_corr
  last,          \* history: the call just made, its arguments and outcome
  fed,           \* history: the sample of the latest treshold() call
  sinceCenter,   \* history: labels treshold() returned since it last returned Center
  scenario,      \* history: progress of a fresh instance along ScenarioVertical
  tm_calls,      \* history: template_match() calls made on the instance
  \* two instances A and B of classify in one module
  module_globals,  \* the module-level names of main (copy).py
  instA, instB,
  alone_globals, aloneA,  \* history: A's samples fed to an instance of its own
  two_last,      \* history: the latest call on A or B and what it returned
  lead,          \* history: the calls A is ahead of B on one sequence
  diverged,      \* history: A and B have been fed different sequences
  agree,         \* history: B returned what A returned, call for call
  \* live_graph.py: the module-level names animate declares global or reads
  plot_bound,    \* whether the module-level names are bound at all
  xar, yar, plot_iterator, plot_x, plot_y, value,
  values_txt,    \* the lines appended to values.txt
  plot_last      \* history: outcome of the latest animate() call

vars == <<vertical_prev_amplitude, horizontal_prev_amplitude,
          left_flag, right_flag, up_flag, down_flag, status, iterator,
          vertical_signal_stack, horizontal_signal_stack,
          vertical_amplitude, horizontal_amplitude,
          vertical_difference, horizontal_difference,
          corr, last, fed, sinceCenter, scenario, tm_calls,
          module_globals, instA, instB, alone_globals, aloneA, two_last,
          lead, diverged, agree,
          plot_bound, xar, yar, plot_iterator, plot_x, plot_y, value,
          values_txt, plot_last>>

classify_vars ==
  <<vertical_prev_amplitude, horizontal_prev_amplitude,
    left_flag, right_flag, up_flag, down_flag, status, iterator,
    vertical_signal_stack, horizontal_signal_stack,
    vertical_amplitude, horizontal_amplitude,
    vertical_difference, horizontal_difference,
    corr, last, fed, sinceCenter, scenario, tm_calls>>

two_vars ==
  <<module_globals, instA, instB, alone_globals, aloneA, two_last,
    lead, diverged, agree>>

plot_vars ==
  <<plot_bound, xar, yar, plot_iterator, plot_x, plot_y, value,
    values_txt, plot_last>>

\* the instance as one record (self)
Self ==
  [vertical_prev_amplitude |-> vertical_prev_amplitude,
   horizontal_prev_amplitude |-> horizontal_prev_amplitude,
   left_flag |-> left_flag, right_flag |-> right_flag,
   up_flag |-> up_flag, down_flag |-> down_flag,
   status |-> status, iterator |-> iterator,
   vertical_signal_stack |-> vertical_signal_stack,
   horizontal_signal_stack |-> horizontal_signal_stack,
   vertical_amplitude |-> vertical_amplitude,
   horizontal_amplitude |-> horizontal_amplitude,
   vertical_difference |-> vertical_difference,
   horizontal_difference |-> horizontal_difference,
   fired |-> {}]

\* classify.__init__ ; the differences and amplitudes are attributes that do
\* not exist before the first call: they are carried as 0 until then
classify_init ==
  [vertical_prev_amplitude |-> 0,
   horizontal_prev_amplitude |-> 0,
   left_flag |-> 0, right_flag |-> 0, up_flag |-> 0, down_flag |-> 0,
   status |-> "centre", iterator |-> 0,
   vertical_signal_stack |-> PyList(<<>>),
   horizontal_signal_stack |-> PyList(<<>>),
   vertical_amplitude |-> 0, horizontal_amplitude |-> 0,
   vertical_difference |-> 0, horizontal_difference |-> 0,
   fired |-> {}]

(***************************************************************************)
(* treshold(): the eight checks, each on the instance left by the one      *)
(* before it.  fired records the checks whose body ran (1..8 in order).    *)
(***************************************************************************)
\* SetUp with the amplitude comparison turned round
SetUp_BelowThreshold(o) ==
  IF o.vertical_amplitude < upper_thresh_vertical
     /\ o.vertical_difference > difference_tresh
  THEN [o EXCEPT !.up_flag = 1, !.status = "up", !.fired = @ \cup {1}]
  ELSE o

\* SetUp that also takes a difference equal to the threshold
SetUp_GeDiff(o) ==
  IF o.vertical_amplitude > upper_thresh_vertical
     /\ o.vertical_difference >= difference_tresh
  THEN [o EXCEPT !.up_flag = 1, !.status = "up", !.fired = @ \cup {1}]
  ELSE o

SetUp(o) ==
  IF o.vertical_amplitude > upper_thresh_vertical
     /\ o.vertical_difference > difference_tresh
  THEN [o EXCEPT !.up_flag = 1, !.status = "up", !.fired = @ \cup {1}]
  ELSE o

\* SetDown with the minus sign of the difference threshold dropped
SetDown_NoMinus(o) ==
  IF o.vertical_amplitude < lower_thresh_vertical
     /\ o.vertical_difference < difference_tresh
  THEN [o EXCEPT !.down_flag = 1, !.status = "down", !.fired = @ \cup {2}]
  ELSE o

SetDown(o) ==
  IF o.vertical_amplitude < lower_thresh_vertical
     /\ o.vertical_difference < -(difference_tresh)
  THEN [o EXCEPT !.down_flag = 1, !.status = "down", !.fired = @ \cup {2}]
  ELSE o

SetRight(o) ==
  IF o.horizontal_amplitude > upper_thresh_horizontal
     /\ o.horizontal_difference > difference_tresh
  THEN [o EXCEPT !.right_flag = 1, !.status = "right", !.fired = @ \cup {3}]
  ELSE o

SetLeft(o) ==
  IF o.horizontal_amplitude < lower_thresh_horizontal
     /\ o.horizontal_difference < -(difference_tresh)
  THEN [o EXCEPT !.left_flag = 1, !.status = "left", !.fired = @ \cup {4}]
  ELSE o

\* ClearUp that clears the flag and leaves the label alone
ClearUp_KeepsLabel(o) ==
  IF o.up_flag = 1 /\ o.vertical_difference < -(difference_tresh)
  THEN [o EXCEPT !.up_flag = 0, !.fired = @ \cup {5}]
  ELSE o

\* ClearUp that also takes a fall equal to the threshold
ClearUp_LeDiff(o) ==
  IF o.up_flag = 1 /\ o.vertical_difference <= -(difference_tresh)
  THEN [o EXCEPT !.up_flag = 0, !.status = "center", !.fired = @ \cup {5}]
  ELSE o

ClearUp(o) ==
  IF o.up_flag = 1 /\ o.vertical_difference < -(difference_tresh)
  THEN [o EXCEPT !.up_flag = 0, !.status = "center", !.fired = @ \cup {5}]
  ELSE o

\* ClearDown that clears the flag and leaves the label alone
ClearDown_KeepsLabel(o) ==
  IF o.down_flag = 1 /\ o.vertical_difference > difference_tresh
  THEN [o EXCEPT !.down_flag = 0, !.fired = @ \cup {6}]
  ELSE o

\* ClearDown that compares the difference with the amplitude threshold
ClearDown_LargeRise(o) ==
  IF o.down_flag = 1 /\ o.vertical_difference > upper_thresh_vertical
  THEN [o EXCEPT !.down_flag = 0, !.status = "center", !.fired = @ \cup {6}]
  ELSE o

ClearDown(o) ==
  IF o.down_flag = 1 /\ o.vertical_difference > difference_tresh
  THEN [o EXCEPT !.down_flag = 0, !.status = "center", !.fired = @ \cup {6}]
  ELSE o

ClearRight(o) ==
  IF o.right_flag = 1 /\ o.horizontal_difference < -(difference_tresh)
  THEN [o EXCEPT !.right_flag = 0, !.status = "center", !.fired = @ \cup {7}]
  ELSE o

ClearLeft(o) ==
  IF o.left_flag = 1 /\ o.horizontal_difference > difference_tresh
  THEN [o EXCEPT !.left_flag = 0, !.status = "center", !.fired = @ \cup {8}]
  ELSE o

\* the four clear checks moved in front of the four set checks
RunChecks_ClearsFirst(o) ==
  SetLeft(SetRight(SetDown(SetUp(
    ClearLeft(ClearRight(ClearDown(ClearUp(o))))))))

\* lines 112-135 in the order of the code
RunChecks(o) ==
  ClearLeft(ClearRight(ClearDown(ClearUp(
    SetLeft(SetRight(SetDown(SetUp(o))))))))

\* the previous amplitudes overwritten before the differences are taken
StoreSample_PrevFirst(o, v, h) ==
  [o EXCEPT !.vertical_amplitude = v,
            !.horizontal_amplitude = h,
            !.vertical_difference = 0,
            !.horizontal_difference = 0,
            !.horizontal_prev_amplitude = h,
            !.vertical_prev_amplitude = v]

\* lines 101-109: float() of the arguments, the two differences against the
\* stored previous amplitudes, then the previous amplitudes overwritten
StoreSample(o, v, h) ==
  [o EXCEPT !.vertical_amplitude = v,
            !.horizontal_amplitude = h,
            !.vertical_difference = v - o.vertical_prev_amplitude,
            !.horizontal_difference = h - o.horizontal_prev_amplitude,
            !.horizontal_prev_amplitude = h,
            !.vertical_prev_amplitude = v]

\* treshold(self, vertical_amplitude, horizontal_amplitude): the instance
\* after the call; the call returns its status
treshold(o, v, h) == RunChecks(StoreSample(o, v, h))

(***************************************************************************)
(* template_match(): a call is carried as a frame, the instance so far     *)
(* with line = 0 while the call runs; an exception leaves ret = "raise"    *)
(* and the line that raised, a return leaves the label and line 169.       *)
(***************************************************************************)
NoCorr == [raised |-> TRUE, cov |-> 0, vx |-> 0, vy |-> 0]

Frame(o) ==
  [obj |-> o, ret |-> "none", line |-> 0, matched |-> {},
   left_corr |-> NoCorr, right_corr |-> NoCorr, up_corr |-> NoCorr,
   down_corr |-> NoCorr, blink_corr |-> NoCorr]

Raise(f, n) == [f EXCEPT !.ret = "raise", !.line = n]

RECURSIVE Dot(_, _)
Dot(s, t) == IF s = <<>> THEN 0 ELSE Head(s) * Head(t) + Dot(Tail(s), Tail(t))

Ones(s) == [i \in 1..Len(s) |-> 1]

\* a pearsonr that accepts whatever it is handed and reports r = 1
pearsonr_Unchecked(x, y) == [raised |-> FALSE, cov |-> 1, vx |-> 1, vy |-> 1]

\* scipy.stats.pearsonr(x, y): raises unless x and y are sequences of one
\* length >= 2; else r = cov / sqrt(vx * vy), carried as the three integers
\* n*Sxy - Sx*Sy, n*Sxx - Sx^2, n*Syy - Sy^2
pearsonr(x, y) ==
  IF x.tag # "list" \/ y.tag # "list" THEN NoCorr
  ELSE IF Len(x.val) # Len(y.val) \/ Len(x.val) < 2 THEN NoCorr
  ELSE LET n == Len(x.val)
           sx == Dot(x.val, Ones(x.val))
           sy == Dot(y.val, Ones(y.val))
       IN [raised |-> FALSE,
           cov |-> n * Dot(x.val, y.val) - sx * sy,
           vx |-> n * Dot(x.val, x.val) - sx * sx,
           vy |-> n * Dot(y.val, y.val) - sy * sy]

\* corr[0] > 0.9 ; a zero variance gives nan, and nan > 0.9 is False
Above09(c) == c.cov > 0 /\ 100 * c.cov * c.cov > 81 * c.vx * c.vy

\* lines 143-144
Enter(o, v, h) ==
  Frame([o EXCEPT !.vertical_amplitude = v, !.horizontal_amplitude = h])

\* line 145: the stack is replaced by the value of append(); a stack that is
\* no list has no append (AttributeError)
PushVertical(f) ==
  IF f.line # 0 THEN f
  ELSE IF f.obj.vertical_signal_stack.tag # "list" THEN Raise(f, 145)
  ELSE [f EXCEPT !.obj.vertical_signal_stack =
                    ListAppend(@, f.obj.vertical_amplitude)]

\* line 146
PushHorizontal(f) ==
  IF f.line # 0 THEN f
  ELSE IF f.obj.horizontal_signal_stack.tag # "list" THEN Raise(f, 146)
  ELSE [f EXCEPT !.obj.horizontal_signal_stack =
                    ListAppend(@, f.obj.horizontal_amplitude)]

\* pop(0) of a stack: AttributeError on None, IndexError on an empty list
CanPop(s) == s.tag = "list" /\ s.val # <<>>
Pop0(s) == PyList(Tail(s.val))

\* lines 148-150
Evict(f, template_size) ==
  IF f.line # 0 THEN f
  ELSE IF ~(f.obj.iterator > template_size) THEN f
  ELSE IF ~CanPop(f.obj.vertical_signal_stack) THEN Raise(f, 149)
  ELSE IF ~CanPop(f.obj.horizontal_signal_stack)
       THEN Raise([f EXCEPT !.obj.vertical_signal_stack = Pop0(@)], 150)
  ELSE [f EXCEPT !.obj.vertical_signal_stack = Pop0(@),
                 !.obj.horizontal_signal_stack = Pop0(@)]

\* lines 152-156: the first pearsonr that raises ends the call
Correlate(f) ==
  IF f.line # 0 THEN f
  ELSE LET l == pearsonr(f.obj.horizontal_signal_stack, left_template)
           r == pearsonr(f.obj.horizontal_signal_stack, right_template)
           u == pearsonr(f.obj.vertical_signal_stack, up_template)
           d == pearsonr(f.obj.vertical_signal_stack, down_template)
           b == pearsonr(f.obj.vertical_signal_stack, blink_template)
       IN IF l.raised THEN Raise(f, 152)
          ELSE IF r.raised THEN Raise([f EXCEPT !.left_corr = l], 153)
          ELSE IF u.raised
               THEN Raise([f EXCEPT !.left_corr = l, !.right_corr = r], 154)
          ELSE IF d.raised
               THEN Raise([f EXCEPT !.left_corr = l, !.right_corr = r,
                                    !.up_corr = u], 155)
          ELSE IF b.raised
               THEN Raise([f EXCEPT !.left_corr = l, !.right_corr = r,
                                    !.up_corr = u, !.down_corr = d], 156)
          ELSE [f EXCEPT !.left_corr = l, !.right_corr = r, !.up_corr = u,
                         !.down_corr = d, !.blink_corr = b]

\* one of the five checks of lines 158-167
MatchOne(f, c, label) ==
  IF Above09(c)
  THEN [f EXCEPT !.obj.status = label, !.matched = @ \cup {label}]
  ELSE f

\* lines 158-169
MatchLabels(f) ==
  IF f.line # 0 THEN f
  ELSE LET f1 == MatchOne(f, f.left_corr, "left")
           f2 == MatchOne(f1, f.right_corr, "right")
           f3 == MatchOne(f2, f.up_corr, "up")
           f4 == MatchOne(f3, f.down_corr, "down")
           f5 == MatchOne(f4, f.blink_corr, "blink")
       IN [f5 EXCEPT !.ret = f5.obj.status, !.line = 169]

\* template_match(self, vertical_amplitude, horizontal_amplitude,
\* template_size): the frame the call ends in
template_match(o, v, h, template_size) ==
  MatchLabels(Correlate(Evict(
    PushHorizontal(PushVertical(Enter(o, v, h))), template_size)))

(***************************************************************************)
(* The instance and its callers.                                           *)
(***************************************************************************)
\* a fixed sequence of vertical amplitudes fed to a fresh instance: the
\* worked example 0, 50, 101, 101.6 and then a fall to 50 and to 0
ScenarioVertical == <<0, 500, 1010, 1016, 500, 0>>
ScenarioOff == [pos |-> -1, h |-> 0, rets |-> <<>>]

\* the scenario after a treshold(v, h) call that returned ret: it advances
\* while the calls made since construction are exactly the prefix of
\* ScenarioVertical, with one horizontal amplitude throughout
ScenarioStep(sc, v, h, ret) ==
  IF /\ sc.pos >= 0
     /\ sc.pos < Len(ScenarioVertical)
     /\ v = ScenarioVertical[sc.pos + 1]
     /\ (sc.pos = 0 \/ h = sc.h)
  THEN [pos |-> sc.pos + 1, h |-> h, rets |-> Append(sc.rets, ret)]
  ELSE ScenarioOff

Install(o) ==
  /\ vertical_prev_amplitude' = o.vertical_prev_amplitude
  /\ horizontal_prev_amplitude' = o.horizontal_prev_amplitude
  /\ left_flag' = o.left_flag
  /\ right_flag' = o.right_flag
  /\ up_flag' = o.up_flag
  /\ down_flag' = o.down_flag
  /\ status' = o.status
  /\ iterator' = o.iterator
  /\ vertical_signal_stack' = o.vertical_signal_stack
  /\ horizontal_signal_stack' = o.horizontal_signal_stack
  /\ vertical_amplitude' = o.vertical_amplitude
  /\ horizontal_amplitude' = o.horizontal_amplitude
  /\ vertical_difference' = o.vertical_difference
  /\ horizontal_difference' = o.horizontal_difference

\* live_graph.py as written binds none of the names animate uses (the
\* assignments of plot.__init__ are locals of a function that takes no
\* self); the classifier runs with the plot module in that condition
PlotUnbound ==
  /\ plot_bound = FALSE
  /\ xar = <<>>
  /\ yar = <<>>
  /\ plot_iterator = 0
  /\ plot_x = 0
  /\ plot_y = 0
  /\ value = 0
  /\ values_txt = <<>>
  /\ plot_last = [ret |-> "none", line |-> 0]

ClassifyInit ==
  /\ vertical_prev_amplitude = classify_init.vertical_prev_amplitude
  /\ horizontal_prev_amplitude = classify_init.horizontal_prev_amplitude
  /\ left_flag = classify_init.left_flag
  /\ right_flag = classify_init.right_flag
  /\ up_flag = classify_init.up_flag
  /\ down_flag = classify_init.down_flag
  /\ status = classify_init.status
  /\ iterator = classify_init.iterator
  /\ vertical_signal_stack = classify_init.vertical_signal_stack
  /\ horizontal_signal_stack = classify_init.horizontal_signal_stack
  /\ vertical_amplitude = classify_init.vertical_amplitude
  /\ horizontal_amplitude = classify_init.horizontal_amplitude
  /\ vertical_difference = classify_init.vertical_difference
  /\ horizontal_difference = classify_init.horizontal_difference
  /\ last = [op |-> "init", v |-> 0, h |-> 0, size |-> 0,
             ret |-> "none", line |-> 0, fired |-> {}, matched |-> {}]
  /\ fed = [v |-> 0, h |-> 0]
  /\ sinceCenter = {}
  /\ scenario = [pos |-> 0, h |-> 0, rets |-> <<>>]
  /\ tm_calls = 0

\* the five correlation attributes do not exist until lines 152-156 assign
\* them
CorrUnset ==
  corr = [left |-> NoCorr, right |-> NoCorr, up |-> NoCorr,
          down |-> NoCorr, blink |-> NoCorr]

\* line 67: the one module-level name of main (copy).py
ModuleGlobals == [prev_amplitude |-> 0]

\* two instances constructed in one module, none called yet
TwoFresh ==
  /\ module_globals = ModuleGlobals
  /\ alone_globals = ModuleGlobals
  /\ instA = classify_init
  /\ instB = classify_init
  /\ aloneA = classify_init
  /\ two_last = [who |-> "none", ret |-> "none", alone |-> "none"]
  /\ lead = <<>>
  /\ diverged = FALSE
  /\ agree = TRUE

Init == ClassifyInit /\ CorrUnset /\ TwoFresh /\ PlotUnbound

\* a caller hands one sample to treshold()
Treshold ==
  \E v \in VerticalAmplitudes, h \in HorizontalAmplitudes :
    \E o \in {treshold(Self, v, h)} :
       /\ Install(o)
       /\ last' = [op |-> "treshold", v |-> v, h |-> h, size |-> 0,
                   ret |-> o.status, line |-> 136, fired |-> o.fired,
                   matched |-> {}]
       /\ fed' = [v |-> v, h |-> h]
       /\ sinceCenter' = IF IsCenter(o.status) THEN {}
                         ELSE sinceCenter \cup {o.status}
       /\ scenario' = ScenarioStep(scenario, v, h, o.status)
       /\ UNCHANGED <<tm_calls, corr>>
       /\ UNCHANGED two_vars
       /\ UNCHANGED plot_vars

\* a caller hands one sample to template_match()
TemplateMatch ==
  /\ tm_calls < MaxCalls
  /\ \E s \in TemplateSamples, n \in TemplateSizes :
       \E f \in {template_match(Self, s[1], s[2], n)} :
          /\ Install(f.obj)
          /\ last' = [op |-> "template_match", v |-> s[1], h |-> s[2],
                      size |-> n, ret |-> f.ret, line |-> f.line,
                      fired |-> {}, matched |-> f.matched]
          /\ corr' = [left |-> f.left_corr, right |-> f.right_corr,
                      up |-> f.up_corr, down |-> f.down_corr,
                      blink |-> f.blink_corr]
          /\ tm_calls' = tm_calls + 1
          /\ scenario' = ScenarioOff
          /\ UNCHANGED <<fed, sinceCenter>>
          /\ UNCHANGED two_vars
          /\ UNCHANGED plot_vars

Next == Treshold \/ TemplateMatch

Spec == Init /\ [][Next]_vars

(***************************************************************************)
(* live_graph.py: plot.animate and the two plot buffers.  animate declares *)
(* xar, yar, iterator, x, y global and reads value; the file binds none    *)
(* of them, so either they are unbound (every call raises NameError at     *)
(* line 23) or the importing script has bound them to the values           *)
(* plot.__init__ lists ('0', '0', 0, [], []) and value to a number.        *)
(* x and y are strings of floats, carried as the numbers they render.      *)
(***************************************************************************)
\* the literal of line 23
PlotCapacity == 500

PlotBound ==
  /\ plot_bound = TRUE
  /\ xar = <<>>
  /\ yar = <<>>
  /\ plot_iterator = 0
  /\ plot_x = 0
  /\ plot_y = 0
  /\ value \in PlotValues
  /\ values_txt = <<>>
  /\ plot_last = [ret |-> "none", line |-> 0]

\* lines 23-25: the buffers before the append
Evicted(buf, it) == IF it > PlotCapacity THEN Tail(buf) ELSE buf

\* animate(i, x_value, y_value)
Animate ==
  /\ plot_iterator < MaxIter
  /\ IF ~plot_bound
     THEN /\ plot_last' = [ret |-> "raise", line |-> 23]
          /\ UNCHANGED <<plot_bound, xar, yar, plot_iterator, plot_x,
                         plot_y, value, values_txt>>
     ELSE /\ plot_x' = plot_x + 1
          /\ plot_y' = value
          /\ values_txt' = Append(values_txt, <<plot_x + 1, value>>)
          /\ xar' = Append(Evicted(xar, plot_iterator), plot_iterator)
          /\ yar' = Append(Evicted(yar, plot_iterator), value)
          /\ plot_iterator' = plot_iterator + 1
          /\ plot_last' = [ret |-> "None", line |-> 38]
          /\ UNCHANGED <<plot_bound, value>>
  /\ UNCHANGED classify_vars
  /\ UNCHANGED two_vars

InitWindows ==
  ClassifyInit /\ CorrUnset /\ TwoFresh /\ (PlotBound \/ PlotUnbound)

NextWindows == TemplateMatch \/ Animate

\* the two sliding windows of the repository, each driven by its caller
SpecWindows == InitWindows /\ [][NextWindows]_vars


(***************************************************************************)
(* Lines 158-169 of template_match() on their own: the label checks        *)
(* applied to an instance whose five correlations lines 152-156 have       *)
(* assigned, each below, at or above 0.9.                                  *)
(***************************************************************************)
\* r = 0, r = 0.9 and r = 1 as pearsonr results
CorrValues ==
  {[raised |-> FALSE, cov |-> 0, vx |-> 1, vy |-> 1],
   [raised |-> FALSE, cov |-> 9, vx |-> 10, vy |-> 10],
   [raised |-> FALSE, cov |-> 1, vx |-> 1, vy |-> 1]}

InitMatch ==
  /\ ClassifyInit /\ TwoFresh /\ PlotUnbound
  /\ corr \in [left : CorrValues, right : CorrValues, up : CorrValues,
                down : CorrValues, blink : CorrValues]

\* lines 158-169 run on the instance
LabelChecks ==
  \E f \in {MatchLabels([Frame(Self) EXCEPT
                           !.left_corr = corr.left,
                           !.right_corr = corr.right,
                           !.up_corr = corr.up,
                           !.down_corr = corr.down,
                           !.blink_corr = corr.blink])} :
     /\ Install(f.obj)
     /\ last' = [op |-> "label_checks", v |-> 0, h |-> 0, size |-> 0,
                 ret |-> f.ret, line |-> f.line, fired |-> {},
                 matched |-> f.matched]
     /\ UNCHANGED <<corr, fed, sinceCenter, scenario, tm_calls>>
     /\ UNCHANGED two_vars
     /\ UNCHANGED plot_vars

NextMatch == LabelChecks

SpecMatch == InitMatch /\ [][NextMatch]_vars

(***************************************************************************)
(* Two instances of classify in one module, each handed samples by its     *)
(* caller in any interleaving.  aloneA is handed A's samples and nothing   *)
(* else, in a module of its own.                                           *)
(***************************************************************************)
\* treshold() that keeps the previous vertical amplitude in the module-level
\* name prev_amplitude instead of the instance
classify_treshold_ModulePrev(g, o, v, h) ==
  [g |-> [g EXCEPT !.prev_amplitude = v],
   obj |-> treshold([o EXCEPT !.fired = {},
                              !.vertical_prev_amplitude = g.prev_amplitude],
                    v, h)]

\* treshold() that keeps the previous horizontal amplitude in the module-level
\* name prev_amplitude instead of the instance
classify_treshold_ModuleHorizontal(g, o, v, h) ==
  [g |-> [g EXCEPT !.prev_amplitude = h],
   obj |-> treshold([o EXCEPT !.fired = {},
                              !.horizontal_prev_amplitude = g.prev_amplitude],
                    v, h)]

\* self.treshold(v, h) in a module whose names are g: the method reads and
\* writes attributes of self only, prev_amplitude of line 67 is not used
classify_treshold(g, o, v, h) ==
  [g |-> g, obj |-> treshold([o EXCEPT !.fired = {}], v, h)]

\* a caller hands one sample to A.treshold()
CallA ==
  /\ ~diverged => Len(lead) < MaxLead
  /\ \E v \in TwoVertical, h \in TwoHorizontal :
       \E r \in {classify_treshold(module_globals, instA, v, h)},
          ra \in {classify_treshold(alone_globals, aloneA, v, h)} :
          /\ module_globals' = r.g
          /\ instA' = r.obj
          /\ alone_globals' = ra.g
          /\ aloneA' = ra.obj
          /\ two_last' = [who |-> "A", ret |-> r.obj.status,
                          alone |-> ra.obj.status]
          /\ lead' = IF diverged THEN lead
                     ELSE Append(lead, [v |-> v, h |-> h,
                                        ret |-> r.obj.status])
          /\ UNCHANGED <<instB, diverged, agree>>
  /\ UNCHANGED classify_vars
  /\ UNCHANGED plot_vars

\* a caller hands one sample to B.treshold(); B stays on A's sequence while
\* it is handed the samples A was handed, in order
CallB ==
  /\ \E v \in TwoVertical, h \in TwoHorizontal :
       \E r \in {classify_treshold(module_globals, instB, v, h)} :
          /\ module_globals' = r.g
          /\ instB' = r.obj
          /\ two_last' = [who |-> "B", ret |-> r.obj.status,
                          alone |-> "none"]
          /\ IF ~diverged /\ lead # <<>>
                /\ Head(lead).v = v /\ Head(lead).h = h
             THEN /\ lead' = Tail(lead)
                  /\ agree' = (agree /\ r.obj.status = Head(lead).ret)
                  /\ UNCHANGED diverged
             ELSE /\ lead' = <<>>
                  /\ diverged' = TRUE
                  /\ UNCHANGED agree
          /\ UNCHANGED <<instA, alone_globals, aloneA>>
  /\ UNCHANGED classify_vars
  /\ UNCHANGED plot_vars

InitTwo == Init

NextTwo == CallA \/ CallB

SpecTwo == InitTwo /\ [][NextTwo]_vars

(***************************************************************************)
(* Properties of treshold().                                               *)
(***************************************************************************)
\* the last of the eight checks of one call whose condition holds (0 when
\* none holds), from the flags at the start of the call, the stored previous
\* amplitudes and the sample: a clear check sees its flag set when it was set
\* before the call or by the set check of the same call
LastHeldCheck(up, down, right, left, pv, ph, v, h) ==
  LET vd == v - pv
      hd == h - ph
      d == difference_tresh
      c1 == v > upper_thresh_vertical /\ vd > d
      c2 == v < lower_thresh_vertical /\ vd < -d
      c3 == h > upper_thresh_horizontal /\ hd > d
      c4 == h < lower_thresh_horizontal /\ hd < -d
  IN IF (left = 1 \/ c4) /\ hd > d THEN 8
     ELSE IF (right = 1 \/ c3) /\ hd < -d THEN 7
     ELSE IF (down = 1 \/ c2) /\ vd > d THEN 6
     ELSE IF (up = 1 \/ c1) /\ vd < -d THEN 5
     ELSE IF c4 THEN 4
     ELSE IF c3 THEN 3
     ELSE IF c2 THEN 2
     ELSE IF c1 THEN 1
     ELSE 0

LabelOfCheck(k, ret) ==
  CASE k = 1 -> ret = "up"
    [] k = 2 -> ret = "down"
    [] k = 3 -> ret = "right"
    [] k = 4 -> ret = "left"
    [] k \in 5..8 -> IsCenter(ret)

\* a step that is a treshold() call
TresholdStep == last'.op = "treshold"

\* C1: treshold() returns the label of the last of the eight checks, in the
\* order set-up, set-down, set-right, set-left, clear-up, clear-down,
\* clear-right, clear-left, whose condition holds in the call, and the label
\* of the previous call when none holds.
C1_LastCheckWins ==
  [][TresholdStep =>
       LET k == LastHeldCheck(up_flag, down_flag, right_flag, left_flag,
                              vertical_prev_amplitude,
                              horizontal_prev_amplitude, last'.v, last'.h)
       IN IF k = 0 THEN last'.ret = status
          ELSE LabelOfCheck(k, last'.ret)]_vars

\* C1 witness: a call in which set-up and clear-down both ran and the later
\* one, clear-down, gave the label
C1_Witness ==
  last.op = "treshold" /\ last.fired = {1, 6} /\ IsCenter(last.ret)

\* the labels of the first four calls of the scenario
ScenarioLabels == SubSeq(scenario.rets, 1, 4)

\* C2 (as claimed): a fresh classifier fed the vertical amplitudes 0, 50,
\* 101, 101.6 with the horizontal amplitude constant and below its
\* thresholds returns Center, Center, Center, Up.
C2_Original ==
  (scenario.pos = 4 /\ scenario.h < lower_thresh_horizontal) =>
    /\ IsCenter(ScenarioLabels[1])
    /\ IsCenter(ScenarioLabels[2])
    /\ IsCenter(ScenarioLabels[3])
    /\ ScenarioLabels[4] = "up"

\* C2 (amended): a fresh classifier fed the vertical amplitudes 0, 50, 101,
\* 101.6 with the horizontal amplitude constant at a value from -0.5 to 3
\* returns Center, Center, Up, Up: the third call already returns Up.
C2_Amended ==
  (/\ scenario.pos = 4
   /\ scenario.h >= -(difference_tresh)
   /\ scenario.h <= upper_thresh_horizontal) =>
    /\ IsCenter(ScenarioLabels[1])
    /\ IsCenter(ScenarioLabels[2])
    /\ ScenarioLabels[3] = "up"
    /\ ScenarioLabels[4] = "up"

\* C2 witness: the four calls of the example have been made on a fresh
\* instance with the horizontal amplitude constant at 0
C2_Witness == scenario.pos = 4 /\ scenario.h = 0 /\ last.v = 1016

\* the flags whose value a step changes
ChangedFlags ==
  {n \in {"up", "down", "right", "left"} :
     \/ n = "up" /\ up_flag' # up_flag
     \/ n = "down" /\ down_flag' # down_flag
     \/ n = "right" /\ right_flag' # right_flag
     \/ n = "left" /\ left_flag' # left_flag}

\* C3 (as claimed): in one treshold() call at most one of the four flags
\* changes value.
C3_Original == [][TresholdStep => Cardinality(ChangedFlags) <= 1]_vars

Exceeds(delta) == delta > difference_tresh \/ delta < -(difference_tresh)

\* C3 (amended): in one treshold() call, on each axis at most one flag is
\* set and at most one flag is cleared (so up to two flags of an axis, four
\* in all, can change in one call), and a flag changes only when the delta of
\* its axis exceeds difference_tresh in magnitude.
C3_Amended ==
  [][TresholdStep =>
       /\ ~(up_flag' > up_flag /\ down_flag' > down_flag)
       /\ ~(up_flag' < up_flag /\ down_flag' < down_flag)
       /\ ~(right_flag' > right_flag /\ left_flag' > left_flag)
       /\ ~(right_flag' < right_flag /\ left_flag' < left_flag)
       /\ (ChangedFlags \cap {"up", "down"} # {}
             => Exceeds(last'.v - vertical_prev_amplitude))
       /\ (ChangedFlags \cap {"right", "left"} # {}
             => Exceeds(last'.h - horizontal_prev_amplitude))]_vars

\* C3 witness: a call whose clear-down and clear-left both ran after its
\* set-up and set-right: flags of both axes changed in the one call
C3_Witness == last.op = "treshold" /\ last.fired = {1, 3, 6, 8}

\* C4: the labels treshold() returns never go from one direction of an axis
\* to the opposite direction without a Center returned in between: the labels
\* returned since the last Center never hold both Up and Down, nor both Left
\* and Right.
C4_NoOppositeWithoutCenter ==
  /\ ~({"up", "down"} \subseteq sinceCenter)
  /\ ~({"left", "right"} \subseteq sinceCenter)

\* C4 witness: Up returned, then Center, then Down
C4_Witness ==
  /\ scenario.pos = 6
  /\ scenario.rets[4] = "up"
  /\ IsCenter(scenario.rets[5])
  /\ scenario.rets[6] = "down"

\* C5: after a treshold() call the stored previous amplitudes are those of
\* the sample just processed, and the differences of the call were taken
\* against the sample of the treshold() call before it (0, 0 for the first).
C5_PrevIsSample ==
  [][TresholdStep =>
       /\ vertical_prev_amplitude' = last'.v
       /\ horizontal_prev_amplitude' = last'.h
       /\ vertical_difference' = last'.v - fed.v
       /\ horizontal_difference' = last'.h - fed.h]_vars

\* C5 witness: a call, not the first, in which checks ran and both
\* amplitudes moved
C5_Witness ==
  /\ last.op = "treshold"
  /\ last.fired # {}
  /\ vertical_difference # 0 /\ vertical_difference # last.v
  /\ horizontal_difference # 0 /\ horizontal_difference # last.h

\* C6: treshold() never returns Blink, template_match() calls on the same
\* instance included.
C6_NeverBlink ==
  last.op = "treshold" =>
    last.ret \in {"centre", "center", "up", "down", "left", "right"}

\* C6 witness: treshold() called after template_match() calls on the
\* instance, no check running, so that the label is the stored one
C6_Witness ==
  last.op = "treshold" /\ tm_calls > 0 /\ last.fired = {}

(***************************************************************************)
(* Properties of the sliding windows and of template_match().              *)
(***************************************************************************)
Min(a, b) == IF a < b THEN a ELSE b

\* C7: after k pushes into a window of capacity N the window holds the last
\* min(k, N) pushed values in order: the plot buffers after k animate()
\* calls (capacity 500; animate pushes 0, 1, 2, ... into xar and value into
\* yar), and the two signal stacks after the first template_match() call.
C7_WindowHoldsLastPushed ==
  /\ plot_bound =>
       LET n == Min(plot_iterator, PlotCapacity)
       IN /\ xar = [i \in 1..n |-> plot_iterator - n + i - 1]
          /\ yar = [i \in 1..n |-> value]
  /\ (last.op = "template_match" /\ tm_calls = 1) =>
       /\ vertical_signal_stack = PyList(<<last.v>>)
       /\ horizontal_signal_stack = PyList(<<last.h>>)

\* the elements a stack holds: None holds none
Held(stack) == IF stack.tag = "list" THEN Len(stack.val) ELSE 0

C9_WarmUpReturnsCenter ==
  (last.op = "template_match" /\ tm_calls < last.size) =>
    /\ IsCenter(last.ret)
    /\ last.line < 152

\* C10: a template_match() call in which no correlation reaches the match
\* threshold returns Center, whatever label the calls before it returned.
C10_NoMatchReturnsCenter ==
  (last.op = "template_match" /\ last.matched = {}) => IsCenter(last.ret)


\* the last of a set of matched gestures in the order left, right, up, down,
\* blink
LastGesture(m) ==
  IF "blink" \in m THEN "blink"
  ELSE IF "down" \in m THEN "down"
  ELSE IF "up" \in m THEN "up"
  ELSE IF "right" \in m THEN "right"
  ELSE "left"

\* C11: a template_match() call made with both windows full returns a label,
\* and when gestures match it is the label of the last matching gesture in
\* the order left, right, up, down, blink.
C11_LastMatchWins ==
  (last.op = "template_match" /\ tm_calls >= last.size) =>
    /\ last.ret # "raise"
    /\ last.matched # {} => last.ret = LastGesture(last.matched)

\* the labels of DirectionLabel as the code spells them
Labels == {"centre", "center", "up", "down", "left", "right", "blink"}

\* C13: every call of either classifier completes and returns a label, and
\* after a template_match() call the two signal stacks are still lists.
C13_ClassifyTotal ==
  /\ last.op \in {"treshold", "template_match"} => last.ret \in Labels
  /\ vertical_signal_stack.tag = "list"
  /\ horizontal_signal_stack.tag = "list"

(***************************************************************************)
(* Behaviour of the flags of treshold().                                   *)
(***************************************************************************)
\* C16: a flag set at the start of a treshold() call is cleared by the call
\* exactly when the delta of its axis is a reverse change larger than
\* difference_tresh (up: below -d, down: above d, right: below -d, left:
\* above d); otherwise it is still set when the call returns.
C16_Hysteresis ==
  [][TresholdStep =>
       LET vd == last'.v - vertical_prev_amplitude
           hd == last'.h - horizontal_prev_amplitude
           d == difference_tresh
       IN /\ up_flag = 1 => (up_flag' = 0 <=> vd < -d)
          /\ down_flag = 1 => (down_flag' = 0 <=> vd > d)
          /\ right_flag = 1 => (right_flag' = 0 <=> hd < -d)
          /\ left_flag = 1 => (left_flag' = 0 <=> hd > d)]_vars

\* C16 witness: a call that cleared the right flag on a fall of the
\* horizontal amplitude while the up flag stayed set
C16_Witness ==
  last.op = "treshold" /\ 7 \in last.fired /\ right_flag = 0 /\ up_flag = 1

\* C17: when treshold() returns Up the up flag is set, and likewise Down,
\* Right and Left with their flags.
C17_LabelHasFlag ==
  last.op = "treshold" =>
    /\ last.ret = "up" => up_flag = 1
    /\ last.ret = "down" => down_flag = 1
    /\ last.ret = "right" => right_flag = 1
    /\ last.ret = "left" => left_flag = 1

\* C17 witness: a call in which no check ran returns the stored label Down
\* with the down flag still set
C17_Witness ==
  last.op = "treshold" /\ last.fired = {} /\ last.ret = "down"
  /\ down_flag = 1

\* C18: when a treshold() call has returned, the two flags of an axis are
\* never both set.
C18_OppositeFlagsExclusive ==
  /\ ~(up_flag = 1 /\ down_flag = 1)
  /\ ~(left_flag = 1 /\ right_flag = 1)

\* C18 witness: flags of different axes set together, the down flag set by
\* the call that cleared the up flag
C18_Witness ==
  /\ last.op = "treshold"
  /\ {2, 5} \subseteq last.fired
  /\ down_flag = 1 /\ right_flag = 1

\* C19: a treshold() call that clears at least one flag returns Center, also
\* when the same call set the flag of another direction.
C19_ClearReturnsCenter ==
  [][(TresholdStep /\ (\/ up_flag' < up_flag
                       \/ down_flag' < down_flag
                       \/ right_flag' < right_flag
                       \/ left_flag' < left_flag))
       => IsCenter(last'.ret)]_vars

\* C19 witness: a call that set the down flag and cleared the up flag
\* returned Center and left the down flag set
C19_Witness ==
  /\ last.op = "treshold"
  /\ last.fired = {2, 5}
  /\ IsCenter(last.ret)
  /\ down_flag = 1 /\ up_flag = 0

\* C20: a treshold() call whose two deltas are within difference_tresh of 0
\* changes no flag and returns the label the call before it left, whatever
\* the amplitudes are.
C20_SmallDeltaChangesNothing ==
  [][(/\ TresholdStep
      /\ ~Exceeds(last'.v - vertical_prev_amplitude)
      /\ ~Exceeds(last'.h - horizontal_prev_amplitude))
       => /\ up_flag' = up_flag
          /\ down_flag' = down_flag
          /\ right_flag' = right_flag
          /\ left_flag' = left_flag
          /\ last'.ret = status]_vars

\* C20 witness: a call above the upper vertical threshold whose vertical
\* delta is exactly difference_tresh, with the up flag clear before and after
C20_Witness ==
  /\ last.op = "treshold"
  /\ last.v > upper_thresh_vertical
  /\ vertical_difference = difference_tresh
  /\ ~Exceeds(horizontal_difference)
  /\ up_flag = 0


(***************************************************************************)
(* Properties of the match threshold and of instances side by side.        *)
(***************************************************************************)
Exactly09(c) == c.cov > 0 /\ 100 * c.cov * c.cov = 81 * c.vx * c.vy

Below09(c) == ~Above09(c) /\ ~Exactly09(c)

Gestures == {"left", "right", "up", "down", "blink"}

ClaimedState(o) ==
  <<o.vertical_prev_amplitude, o.horizontal_prev_amplitude,
    o.up_flag, o.down_flag, o.right_flag, o.left_flag, o.status>>

=============================================================================
